---- MODULE Spec2Model ----
(***************************************************************************)
(* cron-safe: the protected task of src/src/scheduler.ts                   *)
(* (createProtectedTask) and the task controls of src/src/index.ts         *)
(* (schedule).                                                             *)
(*                                                                         *)
(* JavaScript runs every callback to completion, so one action of the      *)
(* model is one synchronous segment of protectedTask: from its call, or    *)
(* from the point where an await resumes, up to the next await or to the   *)
(* return/throw that settles the promise.  The segments are written as     *)
(* transformers of a machine record m (the shared TaskState, the           *)
(* invocation's locals and a control field ctl), composed in the order of  *)
(* the statements of the source.                                           *)
(*                                                                         *)
(* The task, the lifecycle hooks and the notifier are the user's code:     *)
(* what each call of them does (settle with a value, reject, throw) is     *)
(* chosen by the environment.  A task that throws synchronously is caught  *)
(* by the same try block as one that rejects; it is modelled as a          *)
(* rejection seen at the await.                                            *)
(***************************************************************************)
EXTENDS Integers, Sequences, FiniteSets, TLC

\* ---------------------------------------------------------------- bounds
MaxInvocations == 2
MaxRetries == 1
MaxRetriesSolo == 2
MaxNow == 1
MaxDelay == 3
MaxCap == 8
MaxAttemptNo == 3

\* ------------------------------------------------------ program constants
DefaultRetries == 0
DefaultRetryDelay == 0
DefaultHistoryLimit == 10

Inv == 1..MaxInvocations

VARIABLES
  options,          \* the destructured CronSafeOptions (immutable)
  isRunning,        \* state.isRunning
  status,           \* state.status
  history,          \* state.history: references to RunHistory objects, newest first
  records,          \* the RunHistory object each invocation created (historyEntry)
  cronActive,       \* whether the node-cron task is started
  now,              \* the wall clock read by new Date()
  pc,               \* where each invocation is
  triggeredBy,      \* the argument of each invocation
  attempt,          \* local attempt
  lastError,        \* local lastError
  result,           \* what the promise of protectedTask settled with
  trace,            \* per invocation: the calls it made to the user's code, in order
  detached,         \* the invocations whose timed-out task execution is still running
  rejections,       \* the invocations whose notifier promise rejected, not yet handled
  consoleErrors,    \* per invocation: lines written by console.error
  snapshot,         \* the array a caller holds from its last getHistory() call
  computed,         \* what calculateRetryDelay returned for attempt 1, 2, ...
  seen,             \* per invocation: what each terminal hook and the notifier found
                    \* when called
  timers            \* the invocations with a timer of createTimeoutPromise still pending
                    \* for an attempt whose task settled first

vars == <<options, isRunning, status, history, records, cronActive, now, pc,
          triggeredBy, attempt, lastError, result, trace, detached, rejections,
          consoleErrors, snapshot, computed, seen, timers>>

\* ------------------------------------------------------------ value space
Absent == {}
Some(x) == {x}

Hooks == {"onStart", "onSuccess", "onRetry", "onError", "onTimeout", "onOverlapSkip"}
Events == {"success", "error", "timeout", "overlapSkip"}
NotifierOutcomes == {"ok", "rejects", "throws"}

TaskValue == "value"
Undefined == "undefined"
TimeoutErrorValue == "TimeoutError"
HookError == "HookError"
NotifierError == "NotifierError"
\* what a task can fail with: an Error, a value that is no Error
TaskFailures == {"Error", "NonError", TimeoutErrorValue}

Ev(e, n, v) == [ev |-> e, n |-> n, v |-> v]

\* ------------------------------------------------------------- the policy
\* notifyOn as the caller passes it: each flag given or left out
NotifyOnDefault ==
  [success |-> Absent, error |-> Absent, timeout |-> Absent, overlapSkip |-> Absent]

NotifyOnInverse ==
  [success |-> Some(FALSE), error |-> Some(FALSE), timeout |-> Some(FALSE),
   overlapSkip |-> Some(TRUE)]

\* notifier (given or not) and notifyOn
NotifierChoices ==
  { [notifier |-> FALSE, notifyOn |-> NotifyOnDefault],
    [notifier |-> TRUE, notifyOn |-> NotifyOnDefault],
    [notifier |-> TRUE, notifyOn |-> NotifyOnInverse] }

\* retryDelay, backoffStrategy, maxRetryDelay
BackoffChoices ==
  { [retryDelay |-> DefaultRetryDelay, backoffStrategy |-> "fixed", maxRetryDelay |-> Absent],
    [retryDelay |-> 1, backoffStrategy |-> "exponential", maxRetryDelay |-> Some(3)] }

\* the policies with retries <= R, executionTimeout in T and historyLimit in L
Policies(R, T, L) ==
  { [retries |-> r, retryDelay |-> b.retryDelay, backoffStrategy |-> b.backoffStrategy,
     maxRetryDelay |-> b.maxRetryDelay, preventOverlap |-> po, executionTimeout |-> et,
     historyLimit |-> hl, notifier |-> nf.notifier, notifyOn |-> nf.notifyOn] :
       r \in DefaultRetries..R, b \in BackoffChoices, po \in BOOLEAN,
       et \in T, hl \in L, nf \in NotifierChoices }

\* x ?? d
Coalesce(x, d) == IF x = Absent THEN d ELSE CHOOSE v \in x : TRUE

\* every event is notified unless it is switched off
shouldNotifyAll ==
  [success |-> Coalesce(options.notifyOn.success, TRUE),
   error |-> Coalesce(options.notifyOn.error, TRUE),
   timeout |-> Coalesce(options.notifyOn.timeout, TRUE),
   overlapSkip |-> Coalesce(options.notifyOn.overlapSkip, TRUE)]

shouldNotify ==
  [success |-> Coalesce(options.notifyOn.success, TRUE),
   error |-> Coalesce(options.notifyOn.error, TRUE),
   timeout |-> Coalesce(options.notifyOn.timeout, TRUE),
   overlapSkip |-> Coalesce(options.notifyOn.overlapSkip, FALSE)]

maxAttempts == options.retries + 1

RECURSIVE Pow2(_)
Pow2(n) == IF n <= 0 THEN 1 ELSE 2 * Pow2(n - 1)

\* the exponent counts from zero
BackoffDelayFromZero(strategy, retryDelay, n) ==
  CASE strategy = "linear" -> retryDelay * n
    [] strategy = "exponential" -> retryDelay * Pow2(n - 1)
    [] OTHER -> retryDelay

BackoffDelay(strategy, retryDelay, n) ==
  CASE strategy = "linear" -> retryDelay * n
    [] strategy = "exponential" -> retryDelay * Pow2(n)
    [] OTHER -> retryDelay

Cap(delay, maxRetryDelay) ==
  IF maxRetryDelay # Absent /\ delay > Coalesce(maxRetryDelay, 0)
    THEN Coalesce(maxRetryDelay, 0) ELSE delay

calculateRetryDelay(n) ==
  Cap(BackoffDelay(options.backoffStrategy, options.retryDelay, n), options.maxRetryDelay)

TimeoutGuarded ==
  options.executionTimeout # Absent /\ Coalesce(options.executionTimeout, 0) > 0

IsTimeoutError(e) == e = TimeoutErrorValue

\* lastError instanceof Error ? lastError : new Error(String(lastError))
CoerceError(e) == IF e = "NonError" THEN "Error(NonError)" ELSE e

\* -------------------------------------------------- the RunHistory objects
NoRecord ==
  [startedAt |-> 0, endedAt |-> Absent, duration |-> Absent, status |-> "none",
   error |-> Absent, triggeredBy |-> "none"]

\* the trigger source is not taken from the argument
NewRecordScheduled(src, t) ==
  [startedAt |-> t, endedAt |-> Absent, duration |-> Absent, status |-> "running",
   error |-> Absent, triggeredBy |-> "schedule"]

NewRecord(src, t) ==
  [startedAt |-> t, endedAt |-> Absent, duration |-> Absent, status |-> "running",
   error |-> Absent, triggeredBy |-> src]

\* the trim drops the newest entries
RECURSIVE TrimFront(_, _)
TrimFront(h, limit) == IF Len(h) > limit THEN TrimFront(Tail(h), limit) ELSE h

\* while (state.history.length > historyLimit) state.history.pop()
RECURSIVE Trim(_, _)
Trim(h, limit) == IF Len(h) > limit THEN Trim(SubSeq(h, 1, Len(h) - 1), limit) ELSE h

\* the new entry is added at the back
UnshiftAtBack(h, e) == Trim(h \o <<e>>, options.historyLimit)

\* state.history.unshift(historyEntry), then the trim
Unshift(h, e) == Trim(<<e>> \o h, options.historyLimit)

\* historyEntry.endedAt = new Date(); historyEntry.duration = ...; historyEntry.status = st
\* the duration is taken from the end to the start
FinalizeReversed(r, st, t) ==
  [r EXCEPT !.endedAt = Some(t), !.duration = Some(r.startedAt - t), !.status = st]

Finalize(r, st, t) ==
  [r EXCEPT !.endedAt = Some(t), !.duration = Some(t - r.startedAt), !.status = st]

\* -------------------------------------------- one synchronous segment
\* The machine record: the TaskState, the locals of invocation m.self, and
\* ctl: "go" while statements execute, "throw" while an exception propagates,
\* "await", "sleep", "return" once the segment has ended.
\* what a callback of the invocation finds when it is called: the status of
\* the invocation's own record and state.isRunning
View(m, who, event) ==
  [ev |-> who, v |-> event, status |-> m.records[m.self].status, isRunning |-> m.isRunning]

\* the hooks of the terminal paths
TerminalHooks == {"onSuccess", "onError", "onTimeout"}

Machine(i, th, nb) ==
  [self |-> i, th |-> th, nb |-> nb, ctl |-> "go", exc |-> Undefined, thrown |-> {},
   called |-> {},
   isRunning |-> isRunning, status |-> status, history |-> history, records |-> records,
   attempt |-> attempt[i], lastError |-> lastError[i], result |-> result[i],
   trace |-> trace[i], seen |-> seen[i], rejects |-> i \in rejections]

\* hook?.(...): the call is recorded; the hook throws when the environment says so
Hook(m, hook, n, v) ==
  IF m.ctl # "go" THEN m
  ELSE LET m1 == [m EXCEPT !.trace = Append(@, Ev(hook, n, v)),
                           !.seen = IF hook \in TerminalHooks
                                      THEN Append(@, View(m, hook, "")) ELSE @]
       IN  IF hook \in m.th
             THEN [m1 EXCEPT !.ctl = "throw", !.exc = HookError, !.thrown = @ \cup {hook},
                             !.trace = Append(@, Ev("throw", 0, hook))]
             ELSE m1

\* the dispatch awaits the notifier: its rejection is raised in the invocation
sendNotificationAwaited(m, event, n) ==
  IF m.ctl # "go" THEN m
  ELSE LET m1 == [m EXCEPT !.trace = Append(@, Ev("sendNotification", n, event))]
       IN  IF ~options.notifier THEN m1
           ELSE IF ~shouldNotify[event] THEN m1
           ELSE LET m2 == [m1 EXCEPT !.trace = Append(@, Ev("notifier", n, event)),
                                     !.seen = Append(@, View(m, "notifier", event)),
                                     !.called = @ \cup {event}]
                IN  IF m.nb[event] = "throws"
                      THEN [m2 EXCEPT !.ctl = "throw", !.exc = NotifierError,
                                      !.trace = Append(@, Ev("throw", 0, "notifier"))]
                      ELSE IF m.nb[event] = "rejects"
                        THEN [m2 EXCEPT !.ctl = "throw", !.exc = NotifierError]
                        ELSE m2

sendNotification(m, event, n) ==
  IF m.ctl # "go" THEN m
  ELSE LET m1 == [m EXCEPT !.trace = Append(@, Ev("sendNotification", n, event))]
       IN  IF ~options.notifier THEN m1
           ELSE IF ~shouldNotify[event] THEN m1
           ELSE LET m2 == [m1 EXCEPT !.trace = Append(@, Ev("notifier", n, event)),
                                     !.seen = Append(@, View(m, "notifier", event)),
                                     !.called = @ \cup {event}]
                IN  IF m.nb[event] = "throws"
                      THEN [m2 EXCEPT !.ctl = "throw", !.exc = NotifierError,
                                      !.trace = Append(@, Ev("throw", 0, "notifier"))]
                      ELSE [m2 EXCEPT !.rejects = @ \/ m.nb[event] = "rejects"]

\* the terminal outcome marks the task stopped
ResetStopped(m) ==
  IF m.ctl # "go" THEN m ELSE [m EXCEPT !.isRunning = FALSE, !.status = "stopped"]

\* state.isRunning = false; state.status = "scheduled"
Reset(m) ==
  IF m.ctl # "go" THEN m ELSE [m EXCEPT !.isRunning = FALSE, !.status = "scheduled"]

Return(m, v) ==
  IF m.ctl # "go" THEN m ELSE [m EXCEPT !.ctl = "return", !.result = v]

FinalizeEntry(m, st, err) ==
  IF m.ctl # "go" THEN m
  ELSE [m EXCEPT !.records[m.self] =
          [Finalize(@, st, now) EXCEPT !.error = IF err = Absent THEN @ ELSE err]]

\* the overlap path
OverlapSkip(m) ==
  Return(sendNotification(Hook(m, "onOverlapSkip", 0, ""), "overlapSkip", 0), "absent")

\* mark as running, create the history entry, add it and trim, call onStart
StartRun(m, src) ==
  Hook([m EXCEPT !.isRunning = TRUE, !.status = "running",
                 !.records[m.self] = NewRecord(src, now),
                 !.history = Unshift(@, m.self),
                 !.attempt = 0, !.lastError = Undefined],
       "onStart", 0, "")

\* all attempts exhausted
Exhausted(m) ==
  Return(Reset(sendNotification(
           Hook(FinalizeEntry(m, "failed", Some(CoerceError(m.lastError))),
                "onError", 0, m.lastError),
           "error", m.attempt)),
         "absent")

\* the head of the while loop: the next attempt calls the task and awaits it
LoopHead(m) ==
  IF m.ctl # "go" THEN m
  ELSE IF m.attempt < maxAttempts
         THEN [m EXCEPT !.attempt = @ + 1, !.ctl = "await",
                        !.trace = Append(@, Ev("task", m.attempt + 1, ""))]
         ELSE Exhausted(m)

\* after the await: the success branch of the try block
Succeeded(m, v) ==
  Return(Reset(sendNotification(
           Hook(FinalizeEntry(m, "success", Absent), "onSuccess", 0, v),
           "success", m.attempt)),
         v)

\* the timeout branch of the catch block
TimedOut(m, e) ==
  Return(Reset(sendNotification(
           Hook(Hook(FinalizeEntry(m, "timeout", Some(e)), "onTimeout", 0, e),
                "onError", 0, e),
           "timeout", m.attempt)),
         "absent")

\* the start hook is called again for each retry
RetryRestarts(m, e) ==
  LET m1 == Hook(Hook(m, "onRetry", m.attempt, ""), "onStart", 0, "")
      delay == calculateRetryDelay(m.attempt)
  IN  IF m1.ctl # "go" THEN m1
      ELSE IF delay > 0
             THEN [m1 EXCEPT !.ctl = "sleep", !.trace = Append(@, Ev("sleep", delay, ""))]
             ELSE LoopHead(m1)

\* the retry branch of the catch block
Retry(m, e) ==
  LET m1 == Hook(m, "onRetry", m.attempt, "")
      delay == calculateRetryDelay(m.attempt)
  IN  IF m1.ctl # "go" THEN m1
      ELSE IF delay > 0
             THEN [m1 EXCEPT !.ctl = "sleep", !.trace = Append(@, Ev("sleep", delay, ""))]
             ELSE LoopHead(m1)

\* a timeout is retried like any other failure
CatchRetriesTimeout(m, e) ==
  LET m1 == [m EXCEPT !.ctl = "go", !.exc = Undefined, !.lastError = e]
  IN  IF m1.attempt < maxAttempts THEN Retry(m1, e) ELSE LoopHead(m1)

\* catch (error)
Catch(m, e) ==
  LET m1 == [m EXCEPT !.ctl = "go", !.exc = Undefined, !.lastError = e]
  IN  IF IsTimeoutError(e) THEN TimedOut(m1, e)
      ELSE IF m1.attempt < maxAttempts THEN Retry(m1, e)
      ELSE LoopHead(m1)

\* try { ... } catch: what the try block threw goes to the catch block
Try(m) == IF m.ctl = "throw" THEN Catch(m, m.exc) ELSE m

\* ------------------------------------------------------------ the actions
NoCalls == [e \in Events |-> "ok"]

\* what the notifier does in a segment, for the events the segment can send
NotifierBehaviours(evs, outcomes) ==
  { [e \in Events |-> IF e \in evs THEN f[e] ELSE "ok"] : f \in [evs -> outcomes] }

\* the environment's choices are named once: a hook is in th exactly when it
\* threw, and nb differs from "ok" only for a notifier call that was made
Canonical(m) ==
  /\ m.thrown = m.th
  /\ \A e \in Events \ m.called : m.nb[e] = "ok"

Observed(m, n, v) == [m EXCEPT !.trace = Append(@, Ev("settled", n, v))]

Store(i, m) ==
  /\ Canonical(m)
  /\ isRunning' = m.isRunning
  /\ status' = m.status
  /\ history' = m.history
  /\ records' = m.records
  /\ attempt' = [attempt EXCEPT ![i] = m.attempt]
  /\ lastError' = [lastError EXCEPT ![i] = m.lastError]
  /\ result' = [result EXCEPT ![i] = m.result]
  /\ trace' = [trace EXCEPT ![i] = m.trace]
  /\ seen' = [seen EXCEPT ![i] = m.seen]
  /\ rejections' = IF m.rejects THEN rejections \cup {i} ELSE rejections
  /\ pc' = [pc EXCEPT ![i] = CASE m.ctl = "await" -> "awaitTask"
                               [] m.ctl = "sleep" -> "sleeping"
                               [] m.ctl = "return" -> "returned"
                               [] OTHER -> "rejected"]

\* the overlap check left out
protectedTaskUnguarded(m, src) == LoopHead(StartRun(m, src))

\* protectedTask(src) up to its first await or its return
protectedTask(m, src) ==
  IF options.preventOverlap /\ m.isRunning THEN OverlapSkip(m) ELSE LoopHead(StartRun(m, src))

\* A settled promise's reactions are microtasks: they run before the next timer,
\* tick or I/O callback is taken, so no other segment starts in between.
NoneSettling == \A j \in Inv : pc[j] \notin {"returned", "rejected"}

Arrives(i) == NoneSettling /\ pc[i] = "idle" /\ \A j \in 1..(i - 1) : pc[j] # "idle"

Invoke(i, src, th, nb) ==
  /\ Arrives(i)
  /\ Store(i, protectedTask(Machine(i, th, nb), src))
  /\ triggeredBy' = [triggeredBy EXCEPT ![i] = src]
  /\ UNCHANGED <<options, snapshot, computed, timers, cronActive, now, detached, consoleErrors>>

\* cronTask fires: protectedTask("schedule").catch(() => {})
ScheduledTick(K, H, N) ==
  /\ cronActive
  /\ \E i \in K, th \in SUBSET (H \cap {"onOverlapSkip", "onStart"}),
        nb \in NotifierBehaviours({"overlapSkip"}, N) : Invoke(i, "schedule", th, nb)

\* trigger: () => protectedTask("manual")
trigger(K, H, N) ==
  \E i \in K, th \in SUBSET (H \cap {"onOverlapSkip", "onStart"}),
     nb \in NotifierBehaviours({"overlapSkip"}, N) : Invoke(i, "manual", th, nb)

\* withTimeout never clears the timer of createTimeoutPromise: when the task
\* settles first the timer stays pending
TimerLeftBy(i) == IF TimeoutGuarded THEN timers \cup {i} ELSE timers

\* the awaited task promise fulfils
TaskResolves(i, th, nb) ==
  /\ NoneSettling
  /\ pc[i] = "awaitTask"
  /\ Store(i, Try(Succeeded(Observed(Machine(i, th, nb), attempt[i], "fulfilled"), TaskValue)))
  /\ timers' = TimerLeftBy(i)
  /\ UNCHANGED <<options, snapshot, computed, cronActive, now, triggeredBy, detached, consoleErrors>>

\* the awaited task promise rejects
TaskRejects(i, e, th, nb) ==
  /\ NoneSettling
  /\ pc[i] = "awaitTask"
  /\ Store(i, Catch(Observed(Machine(i, th, nb), attempt[i],
                              IF IsTimeoutError(e) THEN "rejected:TimeoutError" ELSE "rejected"),
                     e))
  /\ timers' = TimerLeftBy(i)
  /\ UNCHANGED <<options, snapshot, computed, cronActive, now, triggeredBy, detached, consoleErrors>>

\* withTimeout: the timer of createTimeoutPromise rejects first; the task goes on
TimeoutFires(i, th, nb) ==
  /\ NoneSettling
  /\ pc[i] = "awaitTask"
  /\ TimeoutGuarded
  /\ Store(i, Catch(Observed(Machine(i, th, nb), attempt[i], "deadline"), TimeoutErrorValue))
  /\ detached' = detached \cup {i}
  /\ UNCHANGED <<options, snapshot, computed, timers, cronActive, now, triggeredBy, consoleErrors>>

\* await sleep(delay) resumes
SleepEnds(i) ==
  /\ NoneSettling
  /\ pc[i] = "sleeping"
  /\ Store(i, LoopHead(Machine(i, {}, NoCalls)))
  /\ UNCHANGED <<options, snapshot, computed, timers, cronActive, now, triggeredBy, detached, consoleErrors>>

\* a task that lost the race settles: Promise.race ignores it
DetachedTaskSettles(i) ==
  /\ NoneSettling
  /\ i \in detached
  /\ detached' = detached \ {i}
  /\ UNCHANGED <<options, snapshot, computed, timers, seen, isRunning, status, history, records, cronActive, now, pc,
                 triggeredBy, attempt, lastError, result, trace, rejections,
                 consoleErrors>>

\* the loser's settlement reaches the invocation as a success
StaleTimerFiresUnraced(i) ==
  /\ NoneSettling
  /\ i \in timers
  /\ timers' = timers \ {i}
  /\ isRunning' = FALSE
  /\ UNCHANGED <<options, snapshot, computed, seen, status, history, records, cronActive, now, pc,
                 triggeredBy, attempt, lastError, result, trace, rejections, detached,
                 consoleErrors>>

\* the timer of an attempt whose task settled first fires: its reject() settles
\* a promise that lost the race, Promise.race ignores it
StaleTimerFires(i) ==
  /\ NoneSettling
  /\ i \in timers
  /\ timers' = timers \ {i}
  /\ UNCHANGED <<options, snapshot, computed, seen, isRunning, status, history, records, cronActive, now, pc,
                 triggeredBy, attempt, lastError, result, trace, rejections, detached,
                 consoleErrors>>

\* Promise.resolve(notifier(payload)).catch(err => console.error(...))
NotifierRejectionLogged(i) ==
  /\ NoneSettling
  /\ i \in rejections
  /\ rejections' = rejections \ {i}
  /\ consoleErrors' = [consoleErrors EXCEPT ![i] = @ + 1]
  /\ UNCHANGED <<options, snapshot, computed, timers, seen, isRunning, status, history, records, cronActive, now, pc,
                 triggeredBy, attempt, lastError, result, trace, detached>>

\* the caller's continuation runs on the settled promise (await task.trigger(),
\* or the catch handler of a scheduled run); the invocation's frame is dropped
Settled(i) ==
  /\ pc[i] \in {"returned", "rejected"}
  /\ pc' = [pc EXCEPT ![i] = "done"]
  /\ attempt' = [attempt EXCEPT ![i] = 0]
  /\ lastError' = [lastError EXCEPT ![i] = Undefined]
  /\ result' = [result EXCEPT ![i] = "pending"]
  /\ trace' = [trace EXCEPT ![i] = <<>>]
  /\ seen' = [seen EXCEPT ![i] = <<>>]
  /\ UNCHANGED <<options, snapshot, computed, timers, isRunning, status, history, records, cronActive, now,
                 triggeredBy, detached, rejections, consoleErrors>>

start ==
  /\ status' = "scheduled"
  /\ cronActive' = TRUE
  /\ UNCHANGED <<options, snapshot, computed, timers, seen, isRunning, history, records, now, pc, triggeredBy, attempt,
                 lastError, result, trace, detached, rejections, consoleErrors>>

stop ==
  /\ status' = "stopped"
  /\ cronActive' = FALSE
  /\ UNCHANGED <<options, snapshot, computed, timers, seen, isRunning, history, records, now, pc, triggeredBy, attempt,
                 lastError, result, trace, detached, rejections, consoleErrors>>

\* time passes
Tick ==
  /\ now < MaxNow
  /\ now' = now + 1
  /\ UNCHANGED <<options, snapshot, computed, timers, seen, isRunning, status, history, records, cronActive, pc,
                 triggeredBy, attempt, lastError, result, trace, detached, rejections,
                 consoleErrors>>

\* everything but what the caller holds
taskVars == <<options, isRunning, status, history, records, cronActive, now, pc,
              triggeredBy, attempt, lastError, result, trace, detached, rejections,
              consoleErrors, computed, seen, timers>>

\* getHistory: () => [...state.history]: a new array holding the same RunHistory
\* objects
getHistory ==
  /\ snapshot' = Some(history)
  /\ UNCHANGED taskVars

\* the array the caller holds (its entries are references), and an object of
\* the caller's own
Held == Coalesce(snapshot, <<>>)
CallerObject == 0

\* what a caller can do to the array it was given: h.push(x), h.shift(),
\* h.reverse(), and a write to a field of an entry, h[k].status = ...
CallerPush ==
  /\ snapshot # Absent /\ Len(Held) <= MaxInvocations
  /\ snapshot' = Some(Append(Held, CallerObject))
  /\ UNCHANGED taskVars

CallerShift ==
  /\ snapshot # Absent /\ Len(Held) > 0
  /\ snapshot' = Some(Tail(Held))
  /\ UNCHANGED taskVars

CallerReverse ==
  /\ snapshot # Absent /\ Len(Held) > 1
  /\ snapshot' = Some([k \in 1..Len(Held) |-> Held[Len(Held) + 1 - k]])
  /\ UNCHANGED taskVars

CallerWritesEntry(k) ==
  /\ snapshot # Absent /\ k \in DOMAIN Held /\ Held[k] # CallerObject
  /\ records' = [records EXCEPT ![Held[k]].status = "edited"]
  /\ UNCHANGED <<options, isRunning, status, history, cronActive, now, pc, triggeredBy,
                 attempt, lastError, result, trace, detached, rejections,
                 consoleErrors, snapshot, computed, seen, timers>>

\* getStatus: () => state.status
getStatus == status

\* nextRun: null for a stopped task; otherwise the next date of the cron
\* expression, or null when cron-parser cannot be loaded or rejects the
\* expression.  The set of values a call can return.
Null == "null"
nextRun == IF status = "stopped" THEN {Null} ELSE {"Date", Null}

\* createTaskState(), and the task as schedule() returns it
InitWith(P) ==
  /\ options \in P
  /\ isRunning = FALSE
  /\ status = "scheduled"
  /\ history = <<>>
  /\ records = [i \in Inv |-> NoRecord]
  /\ cronActive = TRUE
  /\ now = 0
  /\ pc = [i \in Inv |-> "idle"]
  /\ triggeredBy = [i \in Inv |-> "none"]
  /\ attempt = [i \in Inv |-> 0]
  /\ lastError = [i \in Inv |-> Undefined]
  /\ result = [i \in Inv |-> "pending"]
  /\ trace = [i \in Inv |-> <<>>]
  /\ seen = [i \in Inv |-> <<>>]
  /\ detached = {}
  /\ timers = {}
  /\ rejections = {}
  /\ consoleErrors = [i \in Inv |-> 0]
  /\ snapshot = Absent
  /\ computed = <<>>

\* the events of the invocations K, with H the hooks that may throw, N what
\* the notifier may do and F what the task may fail with
Steps(K, H, N, F) ==
  \/ ScheduledTick(K, H, N)
  \/ trigger(K, H, N)
  \/ \E i \in Inv, th \in SUBSET (H \cap {"onSuccess", "onRetry", "onError"}),
        nb \in NotifierBehaviours({"success", "error"}, N) : TaskResolves(i, th, nb)
  \/ \E i \in Inv, e \in F, th \in SUBSET (H \cap {"onRetry", "onError", "onTimeout"}),
        nb \in NotifierBehaviours({"error", "timeout"}, N) : TaskRejects(i, e, th, nb)
  \/ \E i \in Inv, th \in SUBSET (H \cap {"onTimeout", "onError"}),
        nb \in NotifierBehaviours({"timeout"}, N) : TimeoutFires(i, th, nb)
  \/ \E i \in Inv : SleepEnds(i)
  \/ \E i \in Inv : DetachedTaskSettles(i)

\* the runs in which the timer left by an attempt whose task settled first
\* fires before the next event of the task (the deadline is short)
Run(K, H, N, F) ==
  \/ timers = {} /\ ScheduledTick(K, H, N)
  \/ timers = {} /\ trigger(K, H, N)
  \/ \E i \in Inv, th \in SUBSET (H \cap {"onSuccess", "onRetry", "onError"}),
        nb \in NotifierBehaviours({"success", "error"}, N) : timers = {} /\ TaskResolves(i, th, nb)
  \/ \E i \in Inv, e \in F, th \in SUBSET (H \cap {"onRetry", "onError", "onTimeout"}),
        nb \in NotifierBehaviours({"error", "timeout"}, N) : timers = {} /\ TaskRejects(i, e, th, nb)
  \/ \E i \in Inv, th \in SUBSET (H \cap {"onTimeout", "onError"}),
        nb \in NotifierBehaviours({"timeout"}, N) : timers = {} /\ TimeoutFires(i, th, nb)
  \/ \E i \in Inv : timers = {} /\ SleepEnds(i)
  \/ \E i \in Inv : timers = {} /\ DetachedTaskSettles(i)
  \/ \E i \in Inv : StaleTimerFires(i)
  \/ \E i \in Inv : Settled(i)

\* the runs in which such a timer fires at any later time
RunRaced(K, H, N, F) ==
  \/ Steps(K, H, N, F)
  \/ \E i \in Inv : StaleTimerFires(i)
  \/ \E i \in Inv : Settled(i)

\* concurrent invocations of one task, with hooks and a notifier that return
\* normally
Init ==
  InitWith(Policies(MaxRetries, {Absent, Some(1)},
                    1..(MaxInvocations - 1) \cup {DefaultHistoryLimit}))

Next == Run(Inv, {}, {"ok"}, {"Error", TimeoutErrorValue})

Spec == Init /\ [][Next]_vars

\* concurrent invocations of a task that prevents overlap, where the hooks of
\* the call itself (onStart, onOverlapSkip) and the notifier may throw
InitGuarded ==
  InitWith({p \in Policies(MaxRetries, {Absent, Some(1)},
                           1..(MaxInvocations - 1) \cup {DefaultHistoryLimit}) :
              p.preventOverlap})

NextGuarded ==
  Run(Inv, {"onStart", "onOverlapSkip"}, {"ok", "throws"}, {"Error", TimeoutErrorValue})

SpecGuarded == InitGuarded /\ [][NextGuarded]_vars

\* one invocation, with everything the user's code can do
InitSolo ==
  InitWith(Policies(MaxRetriesSolo, {Absent, Some(0), Some(1)}, {DefaultHistoryLimit}))

NextSolo ==
  \/ Run({1}, Hooks, NotifierOutcomes, TaskFailures)
  \/ \E i \in Inv : NotifierRejectionLogged(i)

SpecSolo == InitSolo /\ [][NextSolo]_vars

\* a caller that reads the history and changes what it was given, while
\* invocations run (no notifier, overlapping runs allowed, the default limit)
InitCopy ==
  InitWith({p \in Policies(MaxRetries, {Absent, Some(1)}, {DefaultHistoryLimit}) :
              ~p.notifier /\ ~p.preventOverlap})

NextCopy ==
  \/ Run(Inv, {}, {"ok"}, {"Error"})
  \/ getHistory
  \/ CallerPush
  \/ CallerShift
  \/ CallerReverse
  \/ \E k \in 1..(MaxInvocations + 1) : CallerWritesEntry(k)

SpecCopy == InitCopy /\ [][NextCopy]_vars

\* one invocation with everything the user's code can do, while time passes
\* (the clock read by new Date() does not go backwards)
InitClock == InitWith(Policies(MaxRetries, {Absent, Some(1)}, {DefaultHistoryLimit}))

NextClock ==
  \/ Run({1}, Hooks, NotifierOutcomes, TaskFailures)
  \/ \E i \in Inv : NotifierRejectionLogged(i)
  \/ Tick

SpecClock == InitClock /\ [][NextClock]_vars

\* the task is stopped and started again while invocations run (no notifier,
\* the default history limit)
InitLifecycle ==
  InitWith({p \in Policies(MaxRetries, {Absent, Some(1)}, {DefaultHistoryLimit}) :
              ~p.notifier})

NextLifecycle ==
  \/ Run(Inv, {}, {"ok"}, {"Error"})
  \/ start
  \/ stop

SpecLifecycle == InitLifecycle /\ [][NextLifecycle]_vars

\* invocations of a task with a Timeout Guard, where the loser of each race
\* (the task, or the timer) settles at any later time
InitRaced ==
  InitWith({p \in Policies(MaxRetries, {Some(1)}, {DefaultHistoryLimit}) : ~p.notifier})

NextRaced == RunRaced(Inv, {}, {"ok"}, {"Error"})

SpecRaced == InitRaced /\ [][NextRaced]_vars

\* Overlapping invocations with a notifier that may fail: overlap allowed, no
\* hooks, every behaviour of the notifier.
InitOverlap ==
  InitWith({p \in Policies(MaxRetries, {Absent, Some(1)}, {DefaultHistoryLimit}) :
              ~p.preventOverlap /\ p.notifier})

NextOverlap ==
  \/ Run(Inv, {}, NotifierOutcomes, {"Error"})
  \/ \E i \in Inv : NotifierRejectionLogged(i)

SpecOverlap == InitOverlap /\ [][NextOverlap]_vars

\* calculateRetryDelay alone: a backoff policy is drawn and the function is
\* applied to attempt 1, 2, ...
BackoffPolicies ==
  { [retries |-> MaxAttemptNo, retryDelay |-> d, backoffStrategy |-> s,
     maxRetryDelay |-> c, preventOverlap |-> FALSE, executionTimeout |-> Absent,
     historyLimit |-> DefaultHistoryLimit, notifier |-> FALSE,
     notifyOn |-> NotifyOnDefault] :
       d \in DefaultRetryDelay..MaxDelay, s \in {"fixed", "linear", "exponential"},
       c \in {Absent} \cup {Some(x) : x \in 0..MaxCap} }

InitBackoff == InitWith(BackoffPolicies)

ComputeDelay ==
  /\ Len(computed) < MaxAttemptNo
  /\ computed' = Append(computed, calculateRetryDelay(Len(computed) + 1))
  /\ UNCHANGED <<options, isRunning, status, history, records, cronActive, now, pc,
                 triggeredBy, attempt, lastError, result, trace, detached, rejections,
                 consoleErrors, snapshot, seen, timers>>

SpecBackoff == InitBackoff /\ [][ComputeDelay]_vars

\* ------------------------------------------------------------- the claims
\* the calls of kind e in a trace, and how many
CallsIn(t, e) == SelectSeq(t, LAMBDA x : x.ev = e)
CountIn(t, e) == Len(CallsIn(t, e))

\* inside the attempt loop: between "mark running" and the terminal outcome
InLoop(i) == pc[i] \in {"awaitTask", "sleeping"}

\* the invocation took the overlap path
Skipped(i) == CountIn(trace[i], "onOverlapSkip") > 0

\* C1: with preventOverlap, at most one invocation is inside its attempt loop
\* in any reachable state, and isRunning is true while one is: no two
\* invocations both pass the overlap check.
C1_AtMostOneInLoop ==
  options.preventOverlap =>
    /\ Cardinality({i \in Inv : InLoop(i)}) <= 1
    /\ ((\E i \in Inv : InLoop(i)) => isRunning)

\* a second invocation arrived while the first was in its loop, and was skipped
C1_Witness ==
  /\ options.preventOverlap
  /\ \E i, j \in Inv : InLoop(i) /\ pc[j] = "returned" /\ Skipped(j)

\* the step is the call of invocation i
Called(i) == pc[i] = "idle" /\ pc'[i] # "idle"

\* a lifecycle hook of the invocation threw
HookThrew(i) == \E k \in DOMAIN trace[i] : trace[i][k].ev = "throw" /\ trace[i][k].v \in Hooks

\* C2: with preventOverlap, an invocation that arrives while isRunning is true
\* (and whose overlap-skip hook returns normally) is skipped: it returns
\* absent, calls the overlap-skip hook exactly once, calls neither the task nor
\* the start hook, and leaves isRunning, status and history (the sequence and
\* every record) as they were.
C2_SkipLeavesNoTrace ==
  [][\A i \in Inv :
       (Called(i) /\ options.preventOverlap /\ isRunning /\ ~HookThrew(i)') =>
         /\ pc'[i] = "returned" /\ result'[i] = "absent"
         /\ CountIn(trace'[i], "onOverlapSkip") = 1
         /\ CountIn(trace'[i], "task") = 0
         /\ CountIn(trace'[i], "onStart") = 0
         /\ UNCHANGED <<isRunning, status, history, records>>]_vars

\* the record of a terminal outcome
Terminal(i) == records[i].status \in {"success", "failed", "timeout"}

\* C3: with preventOverlap, the step that takes an invocation (whose hooks
\* return normally) out of its loop leaves a terminal record (success,
\* exhausted retries, timeout) and isRunning false; and an invocation that
\* arrives when an earlier one has ended and none is in its loop is not
\* skipped: it is marked running and its task is called.
C3_LockReleased ==
  [][options.preventOverlap =>
       /\ \A i \in Inv :
            (InLoop(i) /\ ~InLoop(i)' /\ ~HookThrew(i)') => (Terminal(i)' /\ ~isRunning')
       /\ \A j \in Inv :
            (Called(j) /\ ~HookThrew(j)' /\ (\A i \in Inv : ~InLoop(i))
                       /\ (\E i \in Inv : Terminal(i)))
              => /\ pc'[j] = "awaitTask" /\ isRunning'
                 /\ CountIn(trace'[j], "task") = 1
                 /\ CountIn(trace'[j], "onOverlapSkip") = 0]_vars

\* C4: invoke never raises a failure to its caller: the promise of a manual
\* invocation (trigger) is never rejected, it settles with the task's value or
\* with absent.  (The rejection of a scheduled tick's promise is swallowed by
\* the catch handler of the cron callback.)
C4_InvokeNeverRaises ==
  \A i \in Inv :
    triggeredBy[i] = "manual" =>
      /\ pc[i] # "rejected"
      /\ pc[i] = "returned" => result[i] \in {TaskValue, "absent"}

\* how the awaited attempts of the invocation ended, in order
Settlements(i) == CallsIn(trace[i], "settled")
LastSettlement(i) == Settlements(i)[Len(Settlements(i))]

\* the invocation has left its attempt loop: its promise has settled
Ended(i) == pc[i] \in {"returned", "rejected"} /\ Len(Settlements(i)) > 0

\* C5: a failing notifier does not change the outcome.  With hooks that
\* return normally the outcome is what the task's attempts make it, whatever
\* the notifier does: the promise is not rejected, every task call is answered
\* by one settlement, and an invocation whose last attempt fulfilled returns
\* the task's value with its record finalized as success and the error hook
\* not called.
C5_NotifierIsolation ==
  \A i \in Inv :
    ~HookThrew(i) =>
      /\ pc[i] # "rejected"
      /\ Ended(i) =>
           /\ CountIn(trace[i], "task") = Len(Settlements(i))
           /\ LastSettlement(i).v = "fulfilled" =>
                /\ result[i] = TaskValue
                /\ records[i].status = "success"
                /\ CountIn(trace[i], "onError") = 0

\* the numbers a hook or the task was called with, in order
NumbersIn(t, e) == [k \in 1..CountIn(t, e) |-> CallsIn(t, e)[k].n]
UpTo(n) == [k \in 1..n |-> k]

\* every attempt so far ended with a failure that is no timeout
AllFailed(i) == \A k \in DOMAIN Settlements(i) : Settlements(i)[k].v = "rejected"

\* C6: the attempt counter never exceeds retries + 1 and the attempts are
\* numbered 1, 2, ... in the order they are made; and an invocation (whose
\* hooks return normally) whose every attempt failed without a timeout has
\* called the task exactly retries + 1 times, the retry hook exactly retries
\* times with the numbers 1..retries in that order, the error hook exactly
\* once, and has returned absent.
C6_ExhaustsRetries ==
  \A i \in Inv :
    /\ attempt[i] <= maxAttempts
    /\ NumbersIn(trace[i], "task") = UpTo(CountIn(trace[i], "task"))
    /\ (Ended(i) /\ ~HookThrew(i) /\ AllFailed(i)) =>
         /\ CountIn(trace[i], "task") = options.retries + 1
         /\ NumbersIn(trace[i], "onRetry") = UpTo(options.retries)
         /\ CountIn(trace[i], "onError") = 1
         /\ pc[i] = "returned" /\ result[i] = "absent"

\* position of the first fulfilled attempt in a trace, 0 when there is none
FirstFulfilled(t) ==
  LET ks == {k \in DOMAIN t : t[k].ev = "settled" /\ t[k].v = "fulfilled"}
  IN  IF ks = {} THEN 0 ELSE CHOOSE k \in ks : \A l \in ks : k <= l

\* the attempts before the last one failed (no timeout), the last one fulfilled
FailedThenSucceeded(i) ==
  /\ Ended(i)
  /\ LastSettlement(i).v = "fulfilled"
  /\ \A k \in 1..(Len(Settlements(i)) - 1) : Settlements(i)[k].v = "rejected"

\* C7: for an invocation whose hooks return normally, no attempt is made after
\* the first success; and when its first k attempts failed and the next one
\* succeeded it has called the task exactly k + 1 times, the retry hook exactly
\* k times, the success hook exactly once with the task's value, the error
\* hook never, and has returned the task's value.
C7_StopsAtFirstSuccess ==
  \A i \in Inv :
    ~HookThrew(i) =>
      /\ FirstFulfilled(trace[i]) > 0 =>
           \A k \in DOMAIN trace[i] :
             k > FirstFulfilled(trace[i]) => trace[i][k].ev \notin {"task", "onRetry", "sleep"}
      /\ FailedThenSucceeded(i) =>
           /\ CountIn(trace[i], "task") = Len(Settlements(i))
           /\ CountIn(trace[i], "onRetry") = Len(Settlements(i)) - 1
           /\ CallsIn(trace[i], "onSuccess") = <<Ev("onSuccess", 0, TaskValue)>>
           /\ CountIn(trace[i], "onError") = 0
           /\ pc[i] = "returned" /\ result[i] = TaskValue

\* position of the first attempt that ended by its deadline, 0 when there is none
FirstDeadline(t) ==
  LET ks == {k \in DOMAIN t : t[k].ev = "settled" /\ t[k].v = "deadline"}
  IN  IF ks = {} THEN 0 ELSE CHOOSE k \in ks : \A l \in ks : k <= l

\* C8: after an attempt has ended by timeout the invocation starts no further
\* attempt, calls no retry hook and waits for no backoff, whatever budget of
\* retries remains, whichever attempt timed out and whatever the hooks and
\* the notifier do.
C8_TimeoutIsTerminal ==
  \A i \in Inv :
    FirstDeadline(trace[i]) > 0 =>
      \A k \in DOMAIN trace[i] :
        k > FirstDeadline(trace[i]) =>
          trace[i][k].ev \notin {"task", "onRetry", "sleep", "settled"}

\* the second of three attempts timed out and the invocation has ended
C8_Witness ==
  \E i \in Inv :
    /\ Ended(i) /\ LastSettlement(i).v = "deadline"
    /\ Len(Settlements(i)) = 2 /\ options.retries = 2

\* what the invocation did after its last event of kind e
Since(t, e) ==
  LET ks == {k \in DOMAIN t : t[k].ev = e}
      last == CHOOSE k \in ks : \A l \in ks : l <= k
  IN  IF ks = {} THEN t ELSE SubSeq(t, last + 1, Len(t))

\* the calls of the lifecycle hooks in a trace
HookCalls(t) == SelectSeq(t, LAMBDA x : x.ev \in Hooks)

\* C9: an attempt whose deadline elapsed before the task settled ends the
\* invocation (whose hooks return normally) as a timeout: the record has
\* status timeout, a TimeoutError and an end time, the timeout hook and then
\* the error hook were called with the TimeoutError, each exactly once in the
\* invocation, one timeout notification was dispatched with the number of the
\* attempt, and the invocation returned absent.
C9_TimeoutReported ==
  \A i \in Inv :
    (Ended(i) /\ ~HookThrew(i) /\ LastSettlement(i).v = "deadline") =>
      /\ records[i].status = "timeout"
      /\ records[i].error = Some(TimeoutErrorValue)
      /\ records[i].endedAt # Absent /\ records[i].duration # Absent
      /\ HookCalls(Since(trace[i], "settled")) =
           <<Ev("onTimeout", 0, TimeoutErrorValue), Ev("onError", 0, TimeoutErrorValue)>>
      /\ CountIn(trace[i], "onTimeout") = 1 /\ CountIn(trace[i], "onError") = 1
      /\ CallsIn(trace[i], "sendNotification") = <<Ev("sendNotification", attempt[i], "timeout")>>
      /\ pc[i] = "returned" /\ result[i] = "absent"

\* the entries of h from the second on
Rest(h) == SubSeq(h, 2, Len(h))

\* h is what is left of g when entries are dropped from its end
IsPrefix(h, g) == Len(h) <= Len(g) /\ h = SubSeq(g, 1, Len(h))

\* C10: history never holds more than historyLimit records; an invocation
\* that is not skipped puts its record at the front, what follows it is the
\* history as it was with only entries at the back (the oldest) dropped, and
\* none is dropped unless the limit requires it; no other step changes the
\* history.
C10_HistoryBounded ==
  [][/\ Len(history) <= options.historyLimit
     /\ Len(history') <= options.historyLimit
     /\ \A i \in Inv :
          (Called(i) /\ records'[i].status # "none") =>
            /\ Len(history') > 0 /\ history'[1] = i
            /\ IsPrefix(Rest(history'), history)
            /\ Len(history') = IF Len(history) < options.historyLimit
                                 THEN Len(history) + 1 ELSE options.historyLimit
     /\ (\A i \in Inv : ~Called(i) \/ records'[i].status = "none") =>
          UNCHANGED history]_vars

\* the history is full and the oldest record has been evicted from it
C10_Witness ==
  /\ Len(history) = options.historyLimit
  /\ \E i \in Inv :
       /\ records[i].status # "none"
       /\ \A k \in DOMAIN history : history[k] # i

\* the invocations that created a record: the calls that were not skipped.
\* Invocations are numbered in the order of their calls (Arrives).
Started == {i \in Inv : records[i].status # "none"}

\* the n most recently started of them
MostRecent(n) == {i \in Started : Cardinality({j \in Started : j > i}) < n}

CallerMutates ==
  CallerPush \/ CallerShift \/ CallerReverse
    \/ \E k \in 1..(MaxInvocations + 1) : CallerWritesEntry(k)

\* what a getHistory() call shows: the records of the history, in order
Shown == [k \in DOMAIN history |-> records[history[k]]]

\* C12: nothing a caller does to the value getHistory returned (adding,
\* removing or reordering entries, changing an entry) changes the task's
\* history, its records, or what a later getHistory() call shows.
C12_DefensiveCopy ==
  [][CallerMutates => (history' = history /\ records' = records /\ Shown' = Shown)]_vars

\* the delay the backoff policy prescribes for retry number a
Prescribed(a) ==
  LET d == options.retryDelay
      raw == CASE options.backoffStrategy = "fixed" -> d
               [] options.backoffStrategy = "linear" -> d * a
               [] options.backoffStrategy = "exponential" -> d * (2 ^ a)
  IN  IF options.maxRetryDelay = Absent THEN raw
      ELSE LET cap == Coalesce(options.maxRetryDelay, 0)
           IN  IF raw > cap THEN cap ELSE raw

\* C13: for a policy with retryDelay >= 0 and maxRetryDelay unset or >= 0, the
\* delay computed for retry number a = 1, 2, ... is retryDelay (fixed),
\* retryDelay * a (linear) or retryDelay * 2^a (exponential), clamped to
\* maxRetryDelay when that is set and exceeded; it is never negative, never
\* above a set maxRetryDelay, and does not decrease as a grows.
C13_BackoffDelay ==
  \A a \in DOMAIN computed :
    /\ computed[a] = Prescribed(a)
    /\ computed[a] >= 0
    /\ options.maxRetryDelay # Absent => computed[a] <= Coalesce(options.maxRetryDelay, 0)
    /\ a > 1 => computed[a - 1] <= computed[a]

\* an exponential delay that grows from 2 to 4 and is then clamped to 5
C13_Witness ==
  /\ options.backoffStrategy = "exponential" /\ options.retryDelay = 1
  /\ options.maxRetryDelay = Some(5)
  /\ computed = <<2, 4, 5>>

\* the executions of the user's task body that have begun and not settled:
\* the awaited ones, and those that lost the race against the timer
BodiesInProgress == {i \in Inv : pc[i] = "awaitTask"} \cup detached

\* C14: with preventOverlap = true at most one execution of the task body is
\* in progress at any time, also after an earlier execution was reported as
\* timed out.
C14_OneBodyAtATime ==
  options.preventOverlap => Cardinality(BodiesInProgress) <= 1

\* the invocation's task execution lost the race against the timer
HitDeadline(i) == Ended(i) /\ LastSettlement(i).v = "deadline"

\* C15: with executionTimeout > 0 and preventOverlap, a task execution that
\* never settles does not block later executions: the invocation (whose hooks
\* return normally) that ran into the deadline has the timeout outcome and has
\* left isRunning false, and an invocation that arrives afterwards, when none
\* is in its loop, is run rather than skipped.
C15_TimeoutUnblocks ==
  [][(options.preventOverlap /\ TimeoutGuarded) =>
       \A i \in Inv :
         (HitDeadline(i) /\ ~HookThrew(i) /\ (\A k \in Inv : ~InLoop(k))) =>
           /\ records[i].status = "timeout"
           /\ ~isRunning
           /\ \A j \in Inv :
                (Called(j) /\ ~HookThrew(j)') =>
                  /\ ~Skipped(j)'
                  /\ CountIn(trace'[j], "task") = 1]_vars

\* C16: isRunning is true during the whole of an invocation's attempt loop
\* (while its task is pending and during its retry waits), whatever
\* preventOverlap is and however the invocations interleave.
C16_RunningThroughLoop ==
  \A i \in Inv : InLoop(i) => isRunning

\* C17: getStatus() returns "running" whenever some invocation of the task is
\* in flight, and "scheduled" whenever none is (the task is never stopped in
\* these runs).
C17_StatusFollowsRuns ==
  IF \E i \in Inv : InLoop(i) THEN getStatus = "running" ELSE getStatus = "scheduled"

\* the positions of the history whose record is still running
RunningRecords == {k \in DOMAIN history : records[history[k]].status = "running"}

\* C18 as stated: at most one record of the task's history has status
\* running, for every configuration and every interleaving.
C18_OneRunningRecord == Cardinality(RunningRecords) <= 1

\* C18: with preventOverlap = true, at most one record of the task's history
\* has status running, for every interleaving of scheduled and manual
\* invocations.
C18_OneRunningRecordGuarded == options.preventOverlap => C18_OneRunningRecord

\* a second run of a guarded task is in progress, its record the only one
\* running, after the first run's record was finalized
C18_Witness ==
  /\ options.preventOverlap
  /\ Len(history) > 1
  /\ RunningRecords = {1}
  /\ Terminal(history[2])

\* C19: a record is finalized exactly once: its status leaves running only
\* for success, failed or timeout, and once it is finalized no step (of an
\* invocation whose hooks return normally) changes any of its fields.
C19_FinalizedOnce ==
  [][\A i \in Inv :
       /\ (records[i].status = "running" /\ records'[i].status # "running") => Terminal(i)'
       /\ (Terminal(i) /\ ~HookThrew(i)') => records'[i] = records[i]]_vars

\* C20: in every reachable state every record has an error if and only if
\* its status is failed or timeout, lacks endedAt and duration if and only if
\* its status is running, and has no negative duration (with a clock that does
\* not go backwards), also when hooks or the notifier throw.
C20_RecordWellFormed ==
  \A i \in Started :
    LET r == records[i]
    IN  /\ r.error # Absent <=> r.status \in {"failed", "timeout"}
        /\ r.endedAt = Absent <=> r.status = "running"
        /\ r.duration = Absent <=> r.status = "running"
        /\ r.duration # Absent => Coalesce(r.duration, 0) >= 0

\* a run that took time and failed: its record has an error, an end and a
\* positive duration
C20_Witness ==
  \E i \in Started :
    /\ records[i].status = "failed" /\ records[i].error # Absent
    /\ records[i].endedAt = Some(now) /\ records[i].duration = Some(MaxNow)

\* whether the policy asks for a notification of the event: the flag given in
\* notifyOn, and when none is given true for success, error and timeout, false
\* for overlapSkip
Wanted(e) ==
  /\ options.notifier
  /\ IF options.notifyOn[e] = Absent THEN e # "overlapSkip"
     ELSE options.notifyOn[e] = Some(TRUE)

\* the notifier was called right after entry k of the trace
NotifierCalledAfter(t, k) ==
  k < Len(t) /\ t[k + 1].ev = "notifier" /\ t[k + 1].v = t[k].v /\ t[k + 1].n = t[k].n

\* C21: the notifier is called for an event exactly when a notifier is
\* configured and notifyOn for the event is true (defaults: success, error and
\* timeout true, overlapSkip false), once per dispatch and only from a
\* dispatch; an invocation in progress none of whose dispatches called the
\* notifier has no notifier failure, no pending rejection and no console output.
C21_NotifiedIffWanted ==
  \A i \in Inv :
    /\ \A k \in DOMAIN trace[i] :
         /\ trace[i][k].ev = "sendNotification" =>
              (NotifierCalledAfter(trace[i], k) <=> Wanted(trace[i][k].v))
         /\ trace[i][k].ev = "notifier" =>
              (k > 1 /\ trace[i][k - 1].ev = "sendNotification")
    /\ (pc[i] # "done" /\ CountIn(trace[i], "notifier") = 0) =>
         /\ i \notin rejections /\ consoleErrors[i] = 0
         /\ \A k \in DOMAIN trace[i] :
              ~(trace[i][k].ev = "throw" /\ trace[i][k].v = "notifier")

\* with a notifier and notifyOn left out, an invocation was skipped while a
\* run was in progress: overlapSkip was dispatched and the notifier not called
C21_Witness ==
  /\ options.notifier /\ options.notifyOn = NotifyOnDefault
  /\ \E i, j \in Inv :
       /\ InLoop(i)
       /\ pc[j] = "returned" /\ Skipped(j)
       /\ CountIn(trace[j], "sendNotification") = 1
       /\ CountIn(trace[j], "notifier") = 0

\* the dispatches of the event made by the invocation, in order
Dispatches(i, e) == SelectSeq(trace[i], LAMBDA x : x.ev = "sendNotification" /\ x.v = e)

\* C22: an invocation (whose hooks return normally) whose last attempt
\* fulfilled returns the task's value, has called the success hook exactly once
\* with that value, has its record finalized as success, and has dispatched
\* one success notification whose attemptsMade is the number of that attempt.
C22_SuccessOutcome ==
  \A i \in Inv :
    (Ended(i) /\ ~HookThrew(i) /\ LastSettlement(i).v = "fulfilled") =>
      /\ result[i] = TaskValue
      /\ CallsIn(trace[i], "onSuccess") = <<Ev("onSuccess", 0, TaskValue)>>
      /\ records[i].status = "success"
      /\ Dispatches(i, "success") = <<Ev("sendNotification", LastSettlement(i).n, "success")>>

\* C23: an invocation (whose hooks return normally) whose every attempt
\* failed without a timeout has its record finalized as failed with the last
\* attempt's error (as an error value), has called the error hook exactly once
\* with that last error, has dispatched one error notification with
\* attemptsMade = retries + 1, and has returned absent.
C23_ExhaustionOutcome ==
  \A i \in Inv :
    (Ended(i) /\ ~HookThrew(i) /\ AllFailed(i)) =>
      /\ records[i].status = "failed"
      /\ records[i].error = Some(CoerceError(lastError[i]))
      /\ CallsIn(trace[i], "onError") = <<Ev("onError", 0, lastError[i])>>
      /\ Dispatches(i, "error") = <<Ev("sendNotification", options.retries + 1, "error")>>
      /\ pc[i] = "returned" /\ result[i] = "absent"

\* C24: while the task is stopped (after stop() and until the next start())
\* every nextRun() call returns null, whatever invocations start or finish in
\* between.
C24_NextRunNullWhileStopped ==
  ~cronActive => nextRun = {Null}

\* the step is one of protectedTask: an invocation moved on
TaskStep == pc' # pc \/ trace' # trace \/ attempt' # attempt

\* C25: protectedTask never writes status = stopped: a step that makes the
\* status stopped is no step of an invocation, and a step of an invocation
\* changes the status only to running, when a non-skipped invocation starts,
\* or to scheduled, when an invocation reaches a terminal outcome.
C25_StoppedOnlyByStop ==
  [][/\ (status' = "stopped" /\ status # "stopped") => (~TaskStep /\ ~cronActive')
     /\ (TaskStep /\ status' # status) =>
          \/ status' = "running" /\ \E i \in Inv : Called(i) /\ ~Skipped(i)'
          \/ status' = "scheduled" /\ \E i \in Inv : InLoop(i) /\ ~InLoop(i)' /\ Terminal(i)']_vars

\* a stopped task whose status a finished manual run has made scheduled again
C25_Witness ==
  /\ ~cronActive /\ status = "scheduled"
  /\ \E i \in Inv : triggeredBy[i] = "manual" /\ Terminal(i) /\ pc[i] = "returned"

\* C26: the step in which a non-skipped invocation starts creates its record,
\* with status running and the invocation's trigger source, and puts it at the
\* front of the history before the first attempt is made; a skipped
\* invocation creates none; and triggeredBy and startedAt of a record never
\* change afterwards.
C26_OneRecordPerRun ==
  [][\A i \in Inv :
       /\ Called(i) =>
            IF Skipped(i)'
              THEN records'[i] = NoRecord /\ history' = history /\ records' = records
              ELSE /\ records[i] = NoRecord
                   /\ records'[i].startedAt = now
                   /\ records'[i].triggeredBy = triggeredBy'[i]
                   /\ triggeredBy'[i] \in {"schedule", "manual"}
                   /\ history'[1] = i
                   /\ Cardinality({k \in DOMAIN history' : history'[k] = i}) = 1
                   /\ records'[i].status = "running"
                   /\ CountIn(trace'[i], "task") > 0 => trace'[i][1].ev = "onStart"
       /\ ~Called(i) =>
            /\ records'[i].triggeredBy = records[i].triggeredBy
            /\ records'[i].startedAt = records[i].startedAt]_vars

\* a manual and a scheduled invocation have both started: two records, the
\* later one in front
C26_Witness ==
  /\ Len(history) = 2
  /\ records[history[1]].triggeredBy = "manual" /\ records[history[2]].triggeredBy = "schedule"
  /\ records[history[1]].status = "running"

\* the invocation has been called and its frame is still there
Live(i) == pc[i] \notin {"idle", "done"}

\* C27: a non-skipped invocation has called the start hook exactly once, as
\* the first thing it called and so before its first attempt, however many
\* attempts it has made; a skipped invocation has not called it.
C27_StartHookOnce ==
  \A i \in Inv :
    Live(i) =>
      IF Skipped(i) THEN CountIn(trace[i], "onStart") = 0
      ELSE /\ CountIn(trace[i], "onStart") = 1
           /\ trace[i][1].ev = "onStart"

\* an invocation in its second attempt, its start hook called once, and an
\* invocation that was skipped meanwhile
C27_Witness ==
  \E i, j \in Inv :
    /\ pc[i] = "awaitTask" /\ attempt[i] = 2 /\ CountIn(trace[i], "task") = 2
    /\ CountIn(trace[i], "onStart") = 1
    /\ pc[j] = "returned" /\ Skipped(j)

\* C28: within an invocation (whose hooks return normally) the retry hook is
\* called only right after a failed non-timeout attempt that has attempts
\* remaining, with that attempt's number, and before the wait and the next
\* attempt; and every failed attempt is followed by exactly one of: the retry
\* hook (attempts remain), the timeout hook (a timeout), the error hook (the
\* last attempt).
C28_RetryHookPlacement ==
  \A i \in Inv :
    ~HookThrew(i) =>
      \A k \in DOMAIN trace[i] :
        LET x == trace[i][k]
        IN  /\ x.ev = "onRetry" =>
                 /\ k > 1 /\ trace[i][k - 1] = Ev("settled", x.n, "rejected")
                 /\ x.n <= options.retries
                 /\ k < Len(trace[i]) /\ trace[i][k + 1].ev \in {"sleep", "task"}
            /\ (x.ev = "settled" /\ x.v # "fulfilled") =>
                 /\ k < Len(trace[i])
                 /\ trace[i][k + 1].ev =
                      IF x.v # "rejected" THEN "onTimeout"
                      ELSE IF x.n <= options.retries THEN "onRetry" ELSE "onError"

\* attempt a + 1 of the invocation was preceded by a wait of the prescribed
\* delay after the retry hook of attempt a, and by no wait at all when that
\* delay is 0
WaitsPrescribed(i) ==
  \A k \in DOMAIN trace[i] :
    (trace[i][k].ev = "task" /\ trace[i][k].n > 1) =>
      LET a == trace[i][k].n - 1
      IN  IF Prescribed(a) > 0
            THEN /\ k > 2
                 /\ trace[i][k - 1] = Ev("sleep", Prescribed(a), "")
                 /\ trace[i][k - 2].ev = "onRetry" /\ trace[i][k - 2].n = a
            ELSE /\ k > 1
                 /\ trace[i][k - 1].ev = "onRetry" /\ trace[i][k - 1].n = a

\* an invocation that arrived during the retry wait of another was skipped
SkippedDuringWait ==
  \A i, j \in Inv :
    (options.preventOverlap /\ pc[i] = "sleeping" /\ Live(j) /\ j # i) => Skipped(j)

\* C29: between attempts a and a + 1 the invocation waits exactly delay(a),
\* and does not suspend when delay(a) is 0; isRunning is true throughout the
\* wait, and under preventOverlap an invocation arriving during the wait is
\* skipped.
C29_BackoffWait ==
  /\ \A i \in Inv : WaitsPrescribed(i)
  /\ \A i \in Inv : pc[i] = "sleeping" => isRunning
  /\ SkippedDuringWait

\* what holds of the wait in every configuration: its length, and the skip
\* under preventOverlap
WaitLengthAndSkip == (\A i \in Inv : WaitsPrescribed(i)) /\ SkippedDuringWait

\* the final status a notification of the event belongs to
StatusOf(event) ==
  CASE event = "success" -> "success" [] event = "error" -> "failed" [] OTHER -> event

\* the terminal hooks are called before the dispatch: the timeout hook and
\* then the error hook before a timeout notification, the success hook before
\* a success notification, the error hook before an error notification
HooksThenDispatch(t) ==
  \A k \in DOMAIN t :
    (t[k].ev = "sendNotification" /\ t[k].v # "overlapSkip") =>
      /\ k > 1
      /\ t[k - 1].ev = (IF t[k].v = "success" THEN "onSuccess" ELSE "onError")
      /\ t[k].v = "timeout" => (k > 2 /\ t[k - 2].ev = "onTimeout")

\* what the terminal hooks and the notifier found: the record already
\* finalized
FinalizedWhenCalled(i) ==
  \A k \in DOMAIN seen[i] :
    LET x == seen[i][k]
    IN  /\ x.ev = "onSuccess" => x.status = "success"
        /\ x.ev = "onTimeout" => x.status = "timeout"
        /\ x.ev = "onError" => x.status \in {"failed", "timeout"}
        /\ (x.ev = "notifier" /\ x.v # "overlapSkip") => x.status = StatusOf(x.v)

\* ... and isRunning not yet reset
RunningWhenCalled(i) ==
  \A k \in DOMAIN seen[i] :
    (seen[i][k].ev \in {"onSuccess", "onTimeout", "onError"}
       \/ (seen[i][k].ev = "notifier" /\ seen[i][k].v # "overlapSkip")) => seen[i][k].isRunning

\* what holds of the order on every terminal path in every configuration
FinalizeHooksDispatch ==
  \A i \in Inv : HooksThenDispatch(trace[i]) /\ FinalizedWhenCalled(i)

\* C30: on each terminal path the record is finalized, then the terminal
\* hooks run (the timeout hook before the error hook), then the notification
\* is dispatched, and only then isRunning and status are reset: a terminal
\* hook or the notifier, when called, finds the record with its final status
\* and isRunning still true.
C30_TerminalOrder ==
  FinalizeHooksDispatch /\ \A i \in Inv : RunningWhenCalled(i)

\* the step in which a loser of invocation i's race settles: the timer of an
\* attempt whose task settled first fires, or a task that was timed out settles
LoserSettles(i) == (i \in timers /\ i \notin timers') \/ (i \in detached /\ i \notin detached')

\* every attempt but the one in progress has exactly one outcome
OneOutcomePerAttempt(i) ==
  \A n \in 1..attempt[i] :
    LET c == Len(SelectSeq(Settlements(i), LAMBDA x : x.n = n))
    IN  IF n < attempt[i] \/ pc[i] # "awaitTask" THEN c = 1 ELSE c = 0

\* what the invocation goes on with after each attempt is what settled first:
\* the task's value, or a TimeoutError
OutcomeIsFirstSettled(i) ==
  \A k \in DOMAIN trace[i] :
    LET x == trace[i][k]
    IN  (x.ev = "settled" /\ x.v \in {"fulfilled", "deadline"}) =>
          /\ k < Len(trace[i])
          /\ trace[i][k + 1] = (IF x.v = "fulfilled" THEN Ev("onSuccess", 0, TaskValue)
                                ELSE Ev("onTimeout", 0, TimeoutErrorValue))

\* C31: the Timeout Guard is first-settled-wins.  Every attempt has one
\* outcome: the task's when the task settled first, a TimeoutError when the
\* deadline fired first; and the later settling of the loser (the timer, or
\* the task) changes neither isRunning, status, history or any record, nor
\* anything of any invocation.
C31_FirstSettledWins ==
  [][\A i \in Inv :
       /\ LoserSettles(i) =>
            UNCHANGED <<isRunning, status, history, records, pc, attempt, lastError,
                        result, trace, seen, rejections, consoleErrors>>
       /\ Live(i)' => (OneOutcomePerAttempt(i) /\ OutcomeIsFirstSettled(i))']_vars

\* an invocation was timed out and its task has settled since; a later one is
\* in its second attempt while the timer of its first attempt is still pending
C31_Witness ==
  \E i, j \in Inv :
    /\ records[i].status = "timeout" /\ pc[i] = "done" /\ i \notin detached
    /\ pc[j] = "awaitTask" /\ attempt[j] = 2 /\ j \in timers

\* the notifier threw when it was called
NotifierThrew(i) == \E k \in DOMAIN trace[i] : trace[i][k] = Ev("throw", 0, "notifier")

\* the task state and everything of the invocations
TaskState == <<isRunning, status, history, records, pc, attempt, lastError, result, trace>>

\* C32: the invocation does not wait for the notifier's asynchronous work: an
\* invocation whose callbacks returned has settled with isRunning and status
\* reset in the very step of its terminal outcome, whether or not the
\* notifier's promise has completed; and the later completion of that promise
\* (its rejection is logged) changes nothing of the task state.
C32_NotifierNotAwaited ==
  [][\A i \in Inv :
       /\ (InLoop(i) /\ ~InLoop(i)' /\ ~HookThrew(i)' /\ ~NotifierThrew(i)') =>
            (pc[i] = "returned" /\ ~isRunning /\ status = "scheduled")'
       /\ (i \in rejections /\ i \notin rejections') => UNCHANGED TaskState]_vars

\* the invocation has settled with its terminal outcome and isRunning is
\* reset, while the promise its notifier returned has not completed
C32_Witness ==
  \E i \in Inv :
    /\ i \in rejections /\ consoleErrors[i] = 0
    /\ pc[i] = "done" /\ Terminal(i) /\ ~isRunning

\* C33: a failure of the notifier is written to the diagnostic log exactly
\* once per invocation: never more than one entry, and an invocation (whose
\* hooks return normally) that has ended after its notifier threw has its one
\* entry.  (A rejected promise is logged when the rejection is delivered.)
C33_NotifierFailureLoggedOnce ==
  \A i \in Inv :
    /\ consoleErrors[i] <= 1
    /\ (pc[i] \in {"returned", "rejected"} /\ ~HookThrew(i) /\ NotifierThrew(i)) =>
         consoleErrors[i] = 1

\* the final status that belongs to the way an attempt ended
OutcomeStatus(v) ==
  CASE v = "fulfilled" -> "success" [] v = "rejected" -> "failed" [] OTHER -> "timeout"

\* C34: with preventOverlap false no invocation is ever skipped (the
\* overlap-skip hook is never called): every invocation that was called has
\* called the task and has its own record, and the record of an invocation that
\* has ended while another is in flight is finalized with that invocation's own
\* outcome, the status that belongs to the way its last attempt ended.
C34_OverlapAllowed ==
  ~options.preventOverlap =>
    \A i \in Inv :
      /\ ~Skipped(i)
      /\ Live(i) =>
           /\ CountIn(trace[i], "task") >= 1
           /\ records[i].status # "none" /\ records[i].triggeredBy = triggeredBy[i]
           /\ Cardinality({k \in DOMAIN history : history[k] = i}) <= 1
      /\ (Ended(i) /\ \E j \in Inv \ {i} : InLoop(j)) =>
           records[i].status = OutcomeStatus(LastSettlement(i).v)

\* what the invocation handed to the notification dispatcher, in order
Dispatched(i) == CallsIn(trace[i], "sendNotification")

\* C35: an invocation (whose hooks return normally) that has ended has
\* dispatched exactly one event: a skipped one overlapSkip, any other one of
\* success, error and timeout, with attemptsMade the number of task calls it
\* made.
C35_OneTerminalDispatch ==
  \A i \in Inv :
    (pc[i] \in {"returned", "rejected"} /\ ~HookThrew(i)) =>
      /\ Len(Dispatched(i)) = 1
      /\ IF Skipped(i)
         THEN Dispatched(i)[1].v = "overlapSkip"
         ELSE /\ Dispatched(i)[1].v \in {"success", "error", "timeout"}
              /\ Dispatched(i)[1].n = CountIn(trace[i], "task")

\* C36: an invocation that was not skipped, one of whose lifecycle hooks
\* threw (and whose notifier did not), still ends in a consistent state: its
\* promise is not rejected, isRunning is false, and its record has the terminal
\* status of what the task did; a task that fulfilled is not run again.
C36_HookFailureContained ==
  \A i \in Inv :
    (pc[i] \in {"returned", "rejected"} /\ HookThrew(i) /\ ~NotifierThrew(i) /\ ~Skipped(i)) =>
      /\ pc[i] # "rejected"
      /\ ~isRunning
      /\ Terminal(i)
      /\ Len(Settlements(i)) > 0 => records[i].status = OutcomeStatus(LastSettlement(i).v)
      /\ \A k \in DOMAIN Settlements(i) :
           Settlements(i)[k].v = "fulfilled" => k = Len(Settlements(i))

\* the invocation has a timeout outcome: its record, the timeout hook or a
\* timeout notification
TimeoutOutcome(i) ==
  \/ records[i].status = "timeout"
  \/ CountIn(trace[i], "onTimeout") > 0
  \/ Len(Dispatches(i, "timeout")) > 0

\* C37: an invocation has a timeout outcome only when executionTimeout is set
\* and > 0 and the deadline of its last attempt elapsed before the task
\* settled; without the Timeout Guard every failure of the task is retried
\* like any other: an invocation that ended on a failed attempt has made
\* retries + 1 task calls.
C37_TimeoutOnlyFromDeadline ==
  \A i \in Inv :
    Live(i) =>
      /\ TimeoutOutcome(i) =>
           /\ TimeoutGuarded
           /\ Len(Settlements(i)) > 0 /\ LastSettlement(i).v = "deadline"
      /\ (~TimeoutGuarded /\ Ended(i) /\ LastSettlement(i).v # "fulfilled") =>
           CountIn(trace[i], "task") = options.retries + 1

\* the terminal outcomes the invocation reached: the calls of onSuccess, and
\* those of onError (which ends the timeout path and the exhaustion path)
Outcomes(i) == CountIn(trace[i], "onSuccess") + CountIn(trace[i], "onError")

\* C38: no invocation stays in its attempt loop: the attempt counter is
\* bounded by retries + 1, and an invocation that was not skipped (and whose
\* hooks return normally) has, when it leaves the loop, reached exactly one
\* terminal outcome after at most retries + 1 task calls, with isRunning false
\* and its record no longer running.
C38_ReachesOneOutcome ==
  \A i \in Inv :
    /\ attempt[i] <= options.retries + 1
    /\ (pc[i] \in {"returned", "rejected"} /\ ~HookThrew(i) /\ ~Skipped(i)) =>
         /\ Outcomes(i) = 1
         /\ CountIn(trace[i], "task") <= options.retries + 1
         /\ ~isRunning
         /\ Terminal(i)

\* the record of the invocation is in history; it was pushed and trimmed away
Listed(i) == \E k \in DOMAIN history : history[k] = i
Evicted(i) == records[i].status # "none" /\ ~Listed(i)

\* C39: while an invocation is in its loop its record is in history with
\* status running; and a step that changes an evicted record (its
\* finalization) leaves history and every record in it as they were.
C39_InFlightListed ==
  [][\A i \in Inv :
       /\ InLoop(i)' => (Listed(i) /\ records[i].status = "running")'
       /\ (Evicted(i) /\ records'[i] # records[i]) =>
            /\ history' = history
            /\ \A j \in Inv : Listed(j) => records'[j] = records[j]]_vars

\* what the caller reads in the array it holds: the entries the task gave it
SnapshotReads == [k \in {n \in DOMAIN Held : Held[n] \in Inv} |-> records[Held[k]]]

\* C40: the value getHistory returned is a snapshot: a step of an invocation
\* (the caller leaving the array alone) changes nothing of what the caller
\* reads in it; a record read as running still reads as running after the run
\* is finalized.
C40_SnapshotFrozen ==
  [][(snapshot # Absent /\ snapshot' = snapshot /\ pc' # pc) =>
       SnapshotReads' = SnapshotReads]_vars

====
